---- MODULE Spec2Model ----
(***************************************************************************)
(* A model of passport-etsy: the Strategy constructor (scope encoding),    *)
(* Strategy.prototype.authenticate (denial short-circuit),                 *)
(* Strategy.prototype.userProfile (profile fetch and its error paths) and  *)
(* the profile parser exports.parse.                                       *)
(*                                                                         *)
(* JavaScript strings are modelled as texts: sequences of lexical tokens.  *)
(* JavaScript values are tagged records; a JSON text is turned into a      *)
(* value by a recursive-descent parser (JSONParse), which can fail, and a  *)
(* value into a JSON text by Stringify, the provider's side of the wire.   *)
(***************************************************************************)
EXTENDS Integers, Sequences, FiniteSets

(***************************************************************************)
(* Bounds of the model.                                                    *)
(***************************************************************************)
MaxScopeLen == 2

MaxConstructions == 3

(***************************************************************************)
(* Texts (JavaScript strings) and their tokens.                            *)
(***************************************************************************)
LBrace == [k |-> "{"]

RBrace == [k |-> "}"]

LBrack == [k |-> "["]

RBrack == [k |-> "]"]

Colon == [k |-> ":"]

Comma == [k |-> ","]

NullTok == [k |-> "null"]

\* a JSON string literal whose (unescaped) content is the text s
StrTok(s) == [k |-> "str", s |-> s]

\* a JSON number literal
NumTok(n) == [k |-> "num", n |-> n]

\* the text of a run of plain characters (no quotes, brackets or digits-only)
W(w) == << [k |-> "word", w |-> w] >>

(***************************************************************************)
(* JavaScript values.                                                      *)
(***************************************************************************)
Undef == [t |-> "undef"]

Null == [t |-> "null"]

Str(text) == [t |-> "str", s |-> text]

S(w) == Str(W(w))

Num(n) == [t |-> "num", n |-> n]

Bool(b) == [t |-> "bool", b |-> b]

Arr(items) == [t |-> "arr", items |-> items]

Obj(kv) == [t |-> "obj", kv |-> kv]

P(key, val) == [key |-> W(key), val |-> val]

\* an exception in flight, carried in place of a value
Throw(e) == [t |-> "throw", e |-> e]

IsThrow(v) == v.t = "throw"

\* ToBoolean
Truthy(v) ==
    CASE v.t = "undef" -> FALSE
      [] v.t = "null" -> FALSE
      [] v.t = "bool" -> v.b
      [] v.t = "str" -> v.s # << >>
      [] v.t = "num" -> v.n # "0"
      [] OTHER -> TRUE

\* ToString, as used by the + operator on a string and a value
ToString(v) ==
    CASE v.t = "str" -> v.s
      [] v.t = "num" -> << NumTok(v.n) >>
      [] v.t = "null" -> W("null")
      [] v.t = "undef" -> W("undefined")
      [] OTHER -> W("[object]")

(***************************************************************************)
(* JSON.parse: a recursive-descent parser over the tokens of a text.       *)
(* Each parser returns [ok, val, next]: next is the first unread position. *)
(***************************************************************************)
RECURSIVE ParseValue(_, _)
RECURSIVE ParseElems(_, _, _)
RECURSIVE ParseMembers(_, _, _)

ParseFail == [ok |-> FALSE, val |-> Undef, next |-> 0]

ParseValue(toks, i) ==
    IF i > Len(toks) THEN ParseFail
    ELSE LET tok == toks[i] IN
      CASE tok.k = "null" -> [ok |-> TRUE, val |-> Null, next |-> i + 1]
        [] tok.k = "num" -> [ok |-> TRUE, val |-> Num(tok.n), next |-> i + 1]
        [] tok.k = "str" -> [ok |-> TRUE, val |-> Str(tok.s), next |-> i + 1]
        [] tok.k = "[" ->
             IF i + 1 <= Len(toks) /\ toks[i + 1].k = "]"
             THEN [ok |-> TRUE, val |-> Arr(<< >>), next |-> i + 2]
             ELSE ParseElems(toks, i + 1, << >>)
        [] tok.k = "{" ->
             IF i + 1 <= Len(toks) /\ toks[i + 1].k = "}"
             THEN [ok |-> TRUE, val |-> Obj(<< >>), next |-> i + 2]
             ELSE ParseMembers(toks, i + 1, << >>)
        [] OTHER -> ParseFail

ParseElems(toks, i, acc) ==
    LET r == ParseValue(toks, i) IN
    IF ~r.ok \/ r.next > Len(toks) THEN ParseFail
    ELSE CASE toks[r.next].k = "," -> ParseElems(toks, r.next + 1, Append(acc, r.val))
           [] toks[r.next].k = "]" ->
                [ok |-> TRUE, val |-> Arr(Append(acc, r.val)), next |-> r.next + 1]
           [] OTHER -> ParseFail

ParseMembers(toks, i, acc) ==
    IF i + 1 > Len(toks) \/ toks[i].k # "str" \/ toks[i + 1].k # ":" THEN ParseFail
    ELSE LET r == ParseValue(toks, i + 2)
             kv == Append(acc, [key |-> toks[i].s, val |-> r.val])
         IN IF ~r.ok \/ r.next > Len(toks) THEN ParseFail
            ELSE CASE toks[r.next].k = "," -> ParseMembers(toks, r.next + 1, kv)
                   [] toks[r.next].k = "}" ->
                        [ok |-> TRUE, val |-> Obj(kv), next |-> r.next + 1]
                   [] OTHER -> ParseFail

\* JSON.parse(text): the value, or a SyntaxError in flight
JSONParse(text) ==
    LET r == ParseValue(text, 1) IN
    IF r.ok /\ r.next = Len(text) + 1 THEN r.val ELSE Throw("SyntaxError")

(***************************************************************************)
(* The provider's encoding of a value as JSON text.                        *)
(***************************************************************************)
RECURSIVE Stringify(_)
RECURSIVE StringifyElems(_, _)
RECURSIVE StringifyMembers(_, _)

Stringify(v) ==
    CASE v.t = "null" -> << NullTok >>
      [] v.t = "num" -> << NumTok(v.n) >>
      [] v.t = "str" -> << StrTok(v.s) >>
      [] v.t = "arr" -> << LBrack >> \o StringifyElems(v.items, 1) \o << RBrack >>
      [] v.t = "obj" -> << LBrace >> \o StringifyMembers(v.kv, 1) \o << RBrace >>

StringifyElems(items, i) ==
    IF i > Len(items) THEN << >>
    ELSE Stringify(items[i])
         \o (IF i < Len(items) THEN << Comma >> ELSE << >>)
         \o StringifyElems(items, i + 1)

StringifyMembers(kv, i) ==
    IF i > Len(kv) THEN << >>
    ELSE << StrTok(kv[i].key), Colon >> \o Stringify(kv[i].val)
         \o (IF i < Len(kv) THEN << Comma >> ELSE << >>)
         \o StringifyMembers(kv, i + 1)

(***************************************************************************)
(* Property access on JavaScript values.                                   *)
(***************************************************************************)
\* the text of a run of digits
D(n) == << NumTok(n) >>

RECURSIVE Lookup(_, _, _)

\* the value of the last member named key among kv[1..i], else undefined
Lookup(kv, key, i) ==
    IF i = 0 THEN Undef
    ELSE IF kv[i].key = key THEN kv[i].val ELSE Lookup(kv, key, i - 1)

\* v.length
GetLength(v) ==
    CASE v.t = "throw" -> v
      [] v.t \in {"undef", "null"} -> Throw("TypeError")
      [] v.t = "arr" -> IF Len(v.items) = 0 THEN Num("0") ELSE Num("n")
      [] v.t = "str" -> IF Len(v.s) = 0 THEN Num("0") ELSE Num("n")
      [] v.t = "obj" -> Lookup(v.kv, W("length"), Len(v.kv))
      [] OTHER -> Undef

\* v.name
GetProp(v, name) ==
    CASE v.t = "throw" -> v
      [] v.t \in {"undef", "null"} -> Throw("TypeError")
      [] v.t = "obj" -> Lookup(v.kv, W(name), Len(v.kv))
      [] OTHER -> Undef

\* v[0]
GetIndex0(v) ==
    CASE v.t = "throw" -> v
      [] v.t \in {"undef", "null"} -> Throw("TypeError")
      [] v.t = "arr" -> IF Len(v.items) = 0 THEN Undef ELSE v.items[1]
      [] v.t = "obj" -> Lookup(v.kv, D("0"), Len(v.kv))
      [] v.t = "str" -> IF Len(v.s) = 0 THEN Undef ELSE Str(<< v.s[1] >>)
      [] OTHER -> Undef

\* a || b
Or(a, b) == IF Truthy(a) THEN a ELSE b

(***************************************************************************)
(* exports.parse of the profile parser.                                    *)
(***************************************************************************)
\* a parser that takes emails from login_name
parseSwapped(json) ==
    LET j == IF json.t = "str" THEN JSONParse(json.s) ELSE json
        id == GetProp(GetIndex0(GetProp(j, "results")), "user_id")
        username == GetProp(GetIndex0(GetProp(j, "results")), "login_name")
    IN CASE IsThrow(j) -> j
         [] IsThrow(id) -> id
         [] OTHER -> [t |-> "profile", id |-> id, username |-> username,
                      emails |-> username]

parse(json) ==
    LET j == IF json.t = "str" THEN JSONParse(json.s) ELSE json
        id == GetProp(GetIndex0(GetProp(j, "results")), "user_id")
        username == GetProp(GetIndex0(GetProp(j, "results")), "login_name")
        emails == GetProp(GetIndex0(GetProp(j, "results")), "primary_email")
    IN CASE IsThrow(j) -> j
         [] IsThrow(id) -> id
         [] IsThrow(username) -> username
         [] IsThrow(emails) -> emails
         [] OTHER -> [t |-> "profile", id |-> id, username |-> username,
                      emails |-> emails]

(***************************************************************************)
(* Error values.                                                           *)
(***************************************************************************)
APIError(message, code) ==
    [t |-> "error", name |-> "APIError", message |-> message, code |-> code]

InternalOAuthError(message, err) ==
    [t |-> "error", name |-> "InternalOAuthError", message |-> message,
     oauthError |-> err]

Error(message) == [t |-> "error", name |-> "Error", message |-> message]

(***************************************************************************)
(* The Strategy constructor.                                               *)
(***************************************************************************)
DefaultRequestTokenURL == S("https://openapi.etsy.com/v2/oauth/request_token")

DefaultAccessTokenURL == S("https://openapi.etsy.com/v2/oauth/access_token")

DefaultUserAuthorizationURL == S("https://www.etsy.com/oauth/signin")

DefaultSessionKey == S("oauth:etsy")

DefaultUserProfileURL == S("https://openapi.etsy.com/v2/users/__SELF__")

RECURSIVE scopeLoopTrailing(_, _, _)

\* the loop with the separator added after every element, the last included
scopeLoopTrailing(scope, i, scopeString) ==
    IF ~(i < Len(scope)) THEN scopeString
    ELSE scopeLoopTrailing(scope, i + 1,
                           scopeString \o ToString(scope[i + 1]) \o W("%20"))

scopeStringTrailing(scope) == scopeLoopTrailing(scope, 0, W("?scope="))

RECURSIVE scopeLoop(_, _, _)

\* the for loop over options.scope, from index i (zero-based) on
scopeLoop(scope, i, scopeString) ==
    IF ~(i < Len(scope)) THEN scopeString
    ELSE LET s1 == scopeString \o ToString(scope[i + 1])
             s2 == IF i < Len(scope) - 1 THEN s1 \o W("%20") ELSE s1
         IN scopeLoop(scope, i + 1, s2)

\* the scope query string of a non-empty scope list
scopeString(scope) == scopeLoop(scope, 0, W("?scope="))

\* options after the defaults are filled in
withDefaults(options) ==
    [options EXCEPT
       !.requestTokenURL = Or(@, DefaultRequestTokenURL),
       !.accessTokenURL = Or(@, DefaultAccessTokenURL),
       !.userAuthorizationURL = Or(@, DefaultUserAuthorizationURL),
       !.sessionKey = Or(@, DefaultSessionKey)]

\* a constructor that appends the scope only to a url that carries none yet
ctorOptionsOnce(options) ==
    LET o == withDefaults(options) IN
    IF Truthy(o.scope) /\ Truthy(GetLength(o.scope))
       /\ ~(\E i \in DOMAIN o.requestTokenURL.s : << o.requestTokenURL.s[i] >> = W("?scope="))
    THEN [o EXCEPT !.requestTokenURL =
                     Str(ToString(@) \o scopeString(o.scope.items))]
    ELSE o

\* the options object as the constructor leaves it
ctorOptions(options) ==
    LET o == withDefaults(options) IN
    IF Truthy(o.scope) /\ Truthy(GetLength(o.scope))
    THEN [o EXCEPT !.requestTokenURL =
                     Str(ToString(@) \o scopeString(o.scope.items))]
    ELSE o

\* the strategy object: what the base constructor is given and the own fields
ctorSelf(options) ==
    LET o == ctorOptions(options) IN
    [name |-> "etsy",
     requestTokenURL |-> o.requestTokenURL,
     userProfileURL |-> Or(o.userProfileURL, DefaultUserProfileURL),
     skipExtendedUserProfile |->
        IF o.skipExtendedUserProfile # Undef THEN o.skipExtendedUserProfile
        ELSE Bool(FALSE)]

(***************************************************************************)
(* Strategy.prototype.authenticate: how often fail() is called and how     *)
(* often control goes to OAuthStrategy.prototype.authenticate.             *)
(***************************************************************************)
denied(req) ==
    Truthy(GetProp(req, "query")) /\ Truthy(GetProp(GetProp(req, "query"), "denied"))

\* authenticate without the return in front of this.fail()
authenticateFallThrough(req) ==
    IF denied(req) THEN [fail |-> 1, base |-> 1] ELSE [fail |-> 0, base |-> 1]

authenticate(req) ==
    IF denied(req) THEN [fail |-> 1, base |-> 0] ELSE [fail |-> 0, base |-> 1]

(***************************************************************************)
(* Strategy.prototype.userProfile.                                         *)
(***************************************************************************)
\* done(err): one argument
Done1(err) == [argc |-> 1, err |-> err, profile |-> Undef]

\* done(err, profile)
Done2(err, profile) == [argc |-> 2, err |-> err, profile |-> profile]

\* the url of the profile request
profileURL(strategy, params) ==
    Str(ToString(strategy.userProfileURL) \o W("?user_id=")
        \o ToString(GetProp(params, "user_id")))

\* the profile built from the callback parameters alone
basicProfile(params) ==
    [t |-> "profile", provider |-> S("etsy"), id |-> GetProp(params, "user_id"),
     username |-> GetProp(params, "screen_name")]

\* userProfile that fetches the extended profile whatever the option says
userProfileAlwaysFetch(strategy, token, tokenSecret, params) ==
    [get |-> << [url |-> profileURL(strategy, params), token |-> token,
                 tokenSecret |-> tokenSecret] >>,
     done |-> << >>]

\* the synchronous part: the get calls issued and the done calls made
userProfile(strategy, token, tokenSecret, params) ==
    IF ~Truthy(strategy.skipExtendedUserProfile)
    THEN [get |-> << [url |-> profileURL(strategy, params), token |-> token,
                      tokenSecret |-> tokenSecret] >>,
          done |-> << >>]
    ELSE [get |-> << >>, done |-> << Done2(Null, basicProfile(params)) >>]

\* the parse of err.data without the try and catch around it
errorJsonUncaught(err) ==
    IF Truthy(GetProp(err, "data"))
    THEN JSONParse(ToString(GetProp(err, "data")))
    ELSE Undef

\* json after the attempt to parse err.data (undefined when not parsed)
errorJson(err) ==
    IF Truthy(GetProp(err, "data"))
    THEN LET j == JSONParse(ToString(GetProp(err, "data")))
         IN IF IsThrow(j) THEN Undef ELSE j
    ELSE Undef

\* the last element of a non-empty errors list
lastError(errors) ==
    IF errors.t = "arr" /\ Len(errors.items) > 0 THEN errors.items[Len(errors.items)]
    ELSE GetIndex0(errors)

\* json.errors[0]
firstError(errors) == GetIndex0(errors)

\* the branch of the get callback taken when err is set
onGetError(err) ==
    LET json == errorJson(err) IN
    IF Truthy(json) /\ Truthy(GetProp(json, "errors"))
       /\ Truthy(GetLength(GetProp(json, "errors")))
    THEN LET e == firstError(GetProp(json, "errors"))
             message == GetProp(e, "message")
             code == GetProp(e, "code")
         IN IF IsThrow(message) THEN [done |-> << >>, thrown |-> message]
            ELSE [done |-> << Done1(APIError(message, code)) >>, thrown |-> Undef]
    ELSE [done |-> << Done1(InternalOAuthError(S("Failed to fetch user profile"), err)) >>,
          thrown |-> Undef]

\* the profile with provider, raw body and parsed JSON attached
attach(profile, body, json) ==
    [t |-> "profile", id |-> profile.id, username |-> profile.username,
     emails |-> profile.emails, provider |-> S("etsy"), raw |-> body,
     json |-> json]

\* the success branch without the try and catch around JSON.parse(body)
onGetSuccessNoCatch(body) ==
    LET json == JSONParse(ToString(body))
        profile == parse(json)
    IN IF IsThrow(profile) THEN [done |-> << >>, thrown |-> profile]
       ELSE [done |-> << Done2(Null, attach(profile, body, json)) >>,
             thrown |-> Undef]

\* the branch of the get callback taken when err is not set
onGetSuccess(body) ==
    LET json == JSONParse(ToString(body)) IN
    IF IsThrow(json)
    THEN [done |-> << Done1(Error(S("Failed to parse user profile"))) >>,
          thrown |-> Undef]
    ELSE LET profile == parse(json) IN
         IF IsThrow(profile) THEN [done |-> << >>, thrown |-> profile]
         ELSE [done |-> << Done2(Null, attach(profile, body, json)) >>,
               thrown |-> Undef]

\* the callback given to this._oauth.get: the done calls it makes and the
\* exception that leaves it, if any
getCallback(err, body) ==
    IF Truthy(err) THEN onGetError(err) ELSE onGetSuccess(body)

(***************************************************************************)
(* Inputs: caller options, requests, callback parameters and what the      *)
(* provider can answer to the profile request.                             *)
(***************************************************************************)
ScopeLists ==
    UNION { { Arr(f) : f \in [1..n -> {S("a"), S("b")}] } : n \in 0..MaxScopeLen }

OptionsSet ==
    [requestTokenURL : {Undef, S("https://example.test/request_token")},
     accessTokenURL : {Undef},
     userAuthorizationURL : {Undef},
     sessionKey : {Undef},
     scope : {Undef} \cup ScopeLists,
     userProfileURL : {Undef, S("https://example.test/users/me")},
     skipExtendedUserProfile : {Undef, Bool(TRUE), Bool(FALSE)}]

\* the options the request lifecycle is explored with
LifecycleOptions ==
    { o \in OptionsSet :
        /\ o.requestTokenURL = Undef
        /\ o.scope \in {Undef, Arr(<< S("a"), S("b") >>)} }

Requests ==
    { Obj(<< >>),
      Obj(<< P("query", Obj(<< >>)) >>),
      Obj(<< P("query", Obj(<< P("oauth_token", S("rt")) >>)) >>),
      Obj(<< P("query", Obj(<< P("denied", Str(<< >>)) >>)) >>),
      Obj(<< P("query", Obj(<< P("denied", S("rt")) >>)) >>) }

ParamsSet ==
    { Obj(<< P("user_id", Str(D("42"))), P("screen_name", S("bob")) >>),
      Obj(<< P("user_id", Str(D("7"))), P("screen_name", S("amy")) >>),
      Obj(<< >>) }

Token == S("token")

TokenSecret == S("secret")

User1 ==
    Obj(<< P("user_id", Num("42")), P("login_name", S("bob")),
           P("primary_email", S("bob@x.com")), P("creation_tsz", Num("1413324188")) >>)

User2 ==
    Obj(<< P("user_id", Str(D("7"))), P("login_name", S("amy")),
           P("primary_email", S("amy@x.com")) >>)

User3 == Obj(<< P("user_id", Num("9")) >>)

\* the provider's user response with the given results list
Results(users) ==
    Obj(<< P("count", Num("1")), P("results", Arr(users)),
           P("params", Obj(<< P("user_id", S("__SELF__")) >>)),
           P("type", S("User")), P("pagination", Obj(<< >>)) >>)

\* the provider's error response with the given errors list
Errors(errs) == Obj(<< P("errors", Arr(errs)) >>)

ApiErr(m, c) == Obj(<< P("message", S(m)), P("code", S(c)) >>)

\* responses with a non-empty results list
UserDocs == { Results(<< User1 >>), Results(<< User2, User1 >>), Results(<< User3 >>) }

\* responses with a non-empty errors list
ErrorDocs ==
    { Errors(<< ApiErr("m", "c") >>), Errors(<< ApiErr("m2", "c2"), ApiErr("m", "c") >>),
      Errors(<< Obj(<< P("message", S("m3")) >>) >>) }

\* valid JSON of any other shape
OtherDocs ==
    { Results(<< >>), Obj(<< P("count", Num("0")) >>), Errors(<< >>), Null, S("oops"),
      Str(Stringify(Results(<< User1 >>))) }

Docs == UserDocs \cup ErrorDocs \cup OtherDocs

\* a text cut before its last token
Truncated(text) == SubSeq(text, 1, Len(text) - 1)

\* texts that are not JSON
MalformedTexts ==
    { W("<html>"), Truncated(Stringify(Results(<< User1 >>))),
      Truncated(Stringify(Errors(<< ApiErr("m", "c") >>))),
      Stringify(Results(<< User2 >>)) \o << Comma >> }

Bodies == { Stringify(d) : d \in Docs } \cup MalformedTexts

\* a transport error of the OAuth client, with the response body if any
TransportError(data) == Obj(<< P("statusCode", Num("500")), P("data", data) >>)

TransportErrors ==
    { Obj(<< P("statusCode", Num("500")) >>), TransportError(Str(<< >>)) }
    \cup { TransportError(Str(b)) : b \in Bodies }

\* the (err, body) pairs the get callback can be called with
Responses ==
    { [err |-> Null, body |-> Str(b)] : b \in Bodies }
    \cup { [err |-> e, body |-> Undef] : e \in TransportErrors }

\* what exports.parse can be called with: a JSON text or a parsed object
ParseArgs == { Str(b) : b \in Bodies } \cup Docs

(***************************************************************************)
(* State.                                                                  *)
(***************************************************************************)
VARIABLES
    options,        \* the caller's options object, shared by the constructions
    optionsIn,      \* the options object as it was when the last constructor call began
    constructions,  \* constructor calls made with the options object
    self,           \* the strategy built by the last constructor call
    pc,             \* ready, failed, delegated, waiting, done, parsed
    req,            \* the request of the current authentication attempt
    failCalls,      \* calls of this.fail() in the attempt
    baseCalls,      \* calls of OAuthStrategy.prototype.authenticate in the attempt
    params,         \* the params userProfile was called with
    getCalls,       \* calls of this._oauth.get in the attempt
    resp,           \* the (err, body) the get callback was called with
    doneCalls,      \* calls of done in the attempt
    thrown,         \* the exception that left the get callback, if any
    parseArg,       \* the argument of a direct call of exports.parse
    parseResult     \* its result: a profile or an exception

vars ==
    << options, optionsIn, constructions, self, pc, req, failCalls, baseCalls,
       params, getCalls, resp, doneCalls, thrown, parseArg, parseResult >>

NoResp == [err |-> Undef, body |-> Undef]

\* nothing of an attempt is left
Fresh ==
    /\ req' = Undef
    /\ failCalls' = 0
    /\ baseCalls' = 0
    /\ params' = Undef
    /\ getCalls' = << >>
    /\ resp' = NoResp
    /\ doneCalls' = << >>
    /\ thrown' = Undef
    /\ parseArg' = Undef
    /\ parseResult' = Undef

\* no attempt is under way
Idle == pc \in {"ready", "failed", "done", "parsed"}

\* the state after new Strategy(o, verify) for some o of the given options
InitWith(Os) ==
    /\ \E o \in Os :
         /\ optionsIn = o
         /\ options = ctorOptions(o)
         /\ self = ctorSelf(o)
    /\ constructions = 1
    /\ pc = "ready"
    /\ req = Undef
    /\ failCalls = 0
    /\ baseCalls = 0
    /\ params = Undef
    /\ getCalls = << >>
    /\ resp = NoResp
    /\ doneCalls = << >>
    /\ thrown = Undef
    /\ parseArg = Undef
    /\ parseResult = Undef

Init == InitWith(LifecycleOptions)

InitCtor == InitWith(OptionsSet)

\* new Strategy(options, verify) once more with the same options object
Construct ==
    /\ Idle
    /\ constructions < MaxConstructions
    /\ optionsIn' = options
    /\ options' = ctorOptions(options)
    /\ self' = ctorSelf(options)
    /\ constructions' = constructions + 1
    /\ pc' = "ready"
    /\ Fresh

\* strategy.authenticate(r, options)
Authenticate ==
    /\ Idle
    /\ \E r \in Requests :
         LET a == authenticate(r) IN
         /\ req' = r
         /\ failCalls' = a.fail
         /\ baseCalls' = a.base
         /\ pc' = IF a.base > 0 THEN "delegated" ELSE "failed"
    /\ params' = Undef
    /\ getCalls' = << >>
    /\ resp' = NoResp
    /\ doneCalls' = << >>
    /\ thrown' = Undef
    /\ parseArg' = Undef
    /\ parseResult' = Undef
    /\ UNCHANGED << options, optionsIn, constructions, self >>

\* the base strategy, holding an access token, calls
\* strategy.userProfile(token, tokenSecret, p, done)
UserProfile ==
    /\ pc = "delegated"
    /\ \E p \in ParamsSet :
         LET u == userProfile(self, Token, TokenSecret, p) IN
         /\ params' = p
         /\ getCalls' = getCalls \o u.get
         /\ doneCalls' = doneCalls \o u.done
         /\ pc' = IF u.get # << >> THEN "waiting" ELSE "done"
    /\ UNCHANGED << options, optionsIn, constructions, self, req, failCalls,
                    baseCalls, resp, thrown, parseArg, parseResult >>

\* the OAuth client calls the callback of the pending get with (err, body)
GetCallback ==
    /\ pc = "waiting"
    /\ \E r \in Responses :
         LET c == getCallback(r.err, r.body) IN
         /\ resp' = r
         /\ doneCalls' = doneCalls \o c.done
         /\ thrown' = c.thrown
    /\ pc' = "done"
    /\ UNCHANGED << options, optionsIn, constructions, self, req, failCalls,
                    baseCalls, params, getCalls, parseArg, parseResult >>

\* a direct call parse(a) of the profile parser
ParseCall ==
    /\ Idle
    /\ \E a \in ParseArgs :
         /\ parseArg' = a
         /\ parseResult' = parse(a)
    /\ pc' = "parsed"
    /\ req' = Undef
    /\ failCalls' = 0
    /\ baseCalls' = 0
    /\ params' = Undef
    /\ getCalls' = << >>
    /\ resp' = NoResp
    /\ doneCalls' = << >>
    /\ thrown' = Undef
    /\ UNCHANGED << options, optionsIn, constructions, self >>

Next ==
    \/ Construct
    \/ Authenticate
    \/ UserProfile
    \/ GetCallback
    \/ ParseCall

\* the whole lifecycle: constructions, authentication attempts, parser calls
Spec == Init /\ [][Next]_vars

NextCtor == Construct

\* repeated constructions over every options object
SpecCtor == InitCtor /\ [][NextCtor]_vars

(***************************************************************************)
(* Helpers of the properties, written without the operators of the model.  *)
(***************************************************************************)
\* the value of the member named key of an object without duplicate keys
FieldOf(obj, key) ==
    IF \E i \in DOMAIN obj.kv : obj.kv[i].key = W(key)
    THEN obj.kv[CHOOSE i \in DOMAIN obj.kv : obj.kv[i].key = W(key)].val
    ELSE Undef

\* the request carries a denial indicator: query.denied is a non-empty string
HasDenial(r) ==
    /\ r.t = "obj"
    /\ FieldOf(r, "query").t = "obj"
    /\ FieldOf(FieldOf(r, "query"), "denied").t = "str"
    /\ FieldOf(FieldOf(r, "query"), "denied").s # << >>

\* the texts of the inputs that are not JSON
NotJSON == MalformedTexts \cup {W("oops"), << >>}

\* the error done receives when the success body cannot be parsed
IsParseError(e) ==
    /\ e.t = "error"
    /\ e.name = "Error"
    /\ e.message = S("Failed to parse user profile")

\* the generic error wrapping the transport error err
IsFetchError(e, err) ==
    /\ e.t = "error"
    /\ e.name = "InternalOAuthError"
    /\ e.message = S("Failed to fetch user profile")
    /\ e.oauthError = err

\* the first element of the results (or errors) list of a provider document
FirstOf(d, list) == FieldOf(d, list).items[1]

\* the number of "?scope=" pieces in a text
ScopeMarks(text) == Cardinality({ i \in DOMAIN text : << text[i] >> = W("?scope=") })

\* the scope strings joined by "%20": a separator between neighbours only
Joined(items) ==
    [i \in 1..(2 * Len(items) - 1) |->
        IF i % 2 = 1 THEN items[(i + 1) \div 2].s[1] ELSE W("%20")[1]]

\* the request-token url the constructor starts from
BaseURL ==
    IF optionsIn.requestTokenURL = Undef
    THEN W("https://openapi.etsy.com/v2/oauth/request_token")
    ELSE optionsIn.requestTokenURL.s

\* the options carry a non-empty scope list
HasScope == optionsIn.scope # Undef /\ Len(optionsIn.scope.items) > 0

(***************************************************************************)
(* C1: an attempt whose request carries a truthy req.query.denied ends     *)
(* failed with one call of fail(), no hand-over to the base authenticate   *)
(* and no network call; any other request is handed to the base routine    *)
(* exactly once and fail() is not called.                                  *)
(***************************************************************************)
C1_DenialShortCircuits ==
    req # Undef =>
      IF HasDenial(req)
      THEN /\ pc = "failed"
           /\ failCalls = 1
           /\ baseCalls = 0
           /\ getCalls = << >>
           /\ doneCalls = << >>
      ELSE /\ pc \in {"delegated", "waiting", "done"}
           /\ failCalls = 0
           /\ baseCalls = 1

C1_Witness == pc = "failed" /\ req # Undef /\ HasDenial(req) /\ failCalls = 1

(***************************************************************************)
(* C2: every call of userProfile calls done exactly once, whatever the     *)
(* branch, and never with both an error and a profile.                     *)
(***************************************************************************)
C2_DoneExactlyOnce ==
    pc = "done"
    /\ \/ resp = NoResp
       \/ resp.err # Null
       \/ resp.body.s \in NotJSON
       \/ \E d \in UserDocs \cup {Results(<< >>)} : resp.body = Str(Stringify(d))
    => /\ Len(doneCalls) = 1
       /\ (doneCalls[1].err = Null) # (doneCalls[1].profile = Undef)

(***************************************************************************)
(* C3: every error arising in userProfile (transport error, API error,     *)
(* malformed JSON, the parser's fault on a results list that is empty or   *)
(* missing) reaches done as its err argument: no exception leaves the get  *)
(* callback, and the request is not issued again.                          *)
(***************************************************************************)
C3_ErrorsReachDone ==
    pc = "done" /\ resp # NoResp
    /\ \/ resp.err # Null
       \/ resp.body.s \in NotJSON
       \/ resp.body \in {Str(Stringify(Results(<< >>))),
                         Str(Stringify(Obj(<< P("count", Num("0")) >>)))}
    => /\ thrown = Undef
       /\ Len(getCalls) <= 1
       /\ Len(doneCalls) >= 1
       /\ \A i \in DOMAIN doneCalls :
            doneCalls[i].err.t = "error" /\ doneCalls[i].profile = Undef

(***************************************************************************)
(* C4: with skipExtendedUserProfile enabled, userProfile calls             *)
(* done(null, profile) with id = params.user_id, username =                *)
(* params.screen_name, provider = "etsy" and issues no get; with the       *)
(* option absent it is false and exactly one get is issued, to             *)
(* userProfileURL + "?user_id=" + params.user_id.                          *)
(***************************************************************************)
C4_SkipExtendedProfile ==
    pc \in {"waiting", "done"} =>
      /\ optionsIn.skipExtendedUserProfile = Bool(TRUE) =>
           /\ getCalls = << >>
           /\ Len(doneCalls) = 1
           /\ doneCalls[1].err = Null
           /\ doneCalls[1].profile.id = FieldOf(params, "user_id")
           /\ doneCalls[1].profile.username = FieldOf(params, "screen_name")
           /\ doneCalls[1].profile.provider = S("etsy")
      /\ optionsIn.skipExtendedUserProfile = Undef =>
           /\ self.skipExtendedUserProfile = Bool(FALSE)
           /\ Len(getCalls) = 1
           /\ getCalls[1].url.s =
                (IF optionsIn.userProfileURL = Undef
                 THEN W("https://openapi.etsy.com/v2/users/__SELF__")
                 ELSE optionsIn.userProfileURL.s)
                \o W("?user_id=")
                \o (IF FieldOf(params, "user_id") = Undef THEN W("undefined")
                    ELSE FieldOf(params, "user_id").s)

C4_Witness ==
    /\ pc = "done"
    /\ optionsIn.skipExtendedUserProfile = Bool(TRUE)
    /\ getCalls = << >>
    /\ Len(doneCalls) = 1
    /\ doneCalls[1].profile.id = Str(D("42"))

C6_ProfileFromResults ==
    \A d \in UserDocs :
      /\ pc = "done" /\ resp = [err |-> Null, body |-> Str(Stringify(d))] =>
           /\ thrown = Undef
           /\ Len(doneCalls) = 1
           /\ doneCalls[1].argc = 2
           /\ doneCalls[1].err = Null
           /\ doneCalls[1].profile.id = FieldOf(FirstOf(d, "results"), "user_id")
           /\ doneCalls[1].profile.username = FieldOf(FirstOf(d, "results"), "login_name")
           /\ doneCalls[1].profile.emails = FieldOf(FirstOf(d, "results"), "primary_email")
           /\ doneCalls[1].profile.provider = S("etsy")
           /\ doneCalls[1].profile.raw = resp.body
           /\ doneCalls[1].profile.json = d
      /\ pc = "parsed" /\ parseArg \in {d, Str(Stringify(d))} =>
           parseResult = [t |-> "profile",
                          id |-> FieldOf(FirstOf(d, "results"), "user_id"),
                          username |-> FieldOf(FirstOf(d, "results"), "login_name"),
                          emails |-> FieldOf(FirstOf(d, "results"), "primary_email")]

C6_Witness ==
    /\ pc = "done"
    /\ resp = [err |-> Null, body |-> Str(Stringify(Results(<< User2, User1 >>)))]
    /\ Len(doneCalls) = 1
    /\ doneCalls[1].profile.id = Str(D("7"))
    /\ doneCalls[1].profile.username = S("amy")
    /\ doneCalls[1].profile.emails = S("amy@x.com")

(***************************************************************************)
(* C7: a success body that is not JSON makes userProfile call done with    *)
(* the "Failed to parse user profile" error and no second argument, and a  *)
(* string that is not JSON makes the parser fail with a parse error; no    *)
(* profile, partial or complete, is delivered.                             *)
(***************************************************************************)
C7_MalformedNeverProfile ==
    /\ pc = "done" /\ resp.err = Null /\ resp.body.s \in NotJSON =>
         /\ thrown = Undef
         /\ Len(doneCalls) = 1
         /\ doneCalls[1].argc = 1
         /\ doneCalls[1].profile = Undef
         /\ IsParseError(doneCalls[1].err)
    /\ pc = "parsed" /\ parseArg.t = "str" /\ parseArg.s \in NotJSON =>
         parseResult = Throw("SyntaxError")

C7_Witness ==
    /\ pc = "done"
    /\ resp = [err |-> Null, body |-> Str(Truncated(Stringify(Results(<< User1 >>))))]
    /\ Len(doneCalls) = 1
    /\ IsParseError(doneCalls[1].err)

(***************************************************************************)
(* C8: with a non-empty scope list the request-token url of the strategy   *)
(* is the configured (or default) url followed by "?scope=" and the scope  *)
(* strings joined by "%20", no separator after the last (for ["a","b"] it  *)
(* ends in "?scope=a%20b"); with an absent or empty list the url carries   *)
(* no scope query string.                                                  *)
(***************************************************************************)
C8_ScopeInRequestTokenURL ==
    /\ HasScope =>
         /\ self.requestTokenURL.s = BaseURL \o W("?scope=") \o Joined(optionsIn.scope.items)
         /\ options.requestTokenURL = self.requestTokenURL
    /\ optionsIn.scope = Arr(<< S("a"), S("b") >>) =>
         LET u == self.requestTokenURL.s IN
         SubSeq(u, Len(u) - 3, Len(u)) = W("?scope=") \o W("a") \o W("%20") \o W("b")
    /\ ~HasScope =>
         /\ self.requestTokenURL.s = BaseURL
         /\ ScopeMarks(self.requestTokenURL.s) = 0

C8_Witness ==
    /\ constructions = 1
    /\ optionsIn.scope = Arr(<< S("a"), S("b") >>)
    /\ optionsIn.requestTokenURL = Undef
    /\ self.requestTokenURL =
         Str(W("https://openapi.etsy.com/v2/oauth/request_token")
             \o W("?scope=") \o W("a") \o W("%20") \o W("b"))

(***************************************************************************)
(* C9: the scope encoding mutates the caller's options object and is not   *)
(* idempotent: after k constructions with the same options object and a    *)
(* non-empty scope list, options.requestTokenURL carries the "?scope=..."  *)
(* suffix k times.                                                         *)
(***************************************************************************)
C9_ScopeAppendedEachTime ==
    /\ HasScope =>
         /\ ScopeMarks(options.requestTokenURL.s) = constructions
         /\ ScopeMarks(options.requestTokenURL.s) = ScopeMarks(BaseURL) + 1
         /\ options.requestTokenURL # optionsIn.requestTokenURL
    /\ ~HasScope => ScopeMarks(options.requestTokenURL.s) = 0

C9_Witness ==
    /\ constructions = 2
    /\ HasScope
    /\ ScopeMarks(options.requestTokenURL.s) = 2
    /\ ScopeMarks(optionsIn.requestTokenURL.s) = 1

(***************************************************************************)
(* C10, as stated: malformed JSON is surfaced as a generic parse error     *)
(* both when it is the body of a transport error (err.data) and when it is *)
(* the success body.                                                       *)
(***************************************************************************)
C10_ParseErrorInBothPlaces ==
    pc = "done"
    /\ \/ resp.err = Null /\ resp.body.s \in NotJSON
       \/ \E b \in MalformedTexts : resp.err = TransportError(Str(b))
    => Len(doneCalls) = 1 /\ IsParseError(doneCalls[1].err)

(***************************************************************************)
(* C10, amended: malformed JSON in the success body is surfaced as the     *)
(* "Failed to parse user profile" error; malformed JSON in the body of a   *)
(* transport error is surfaced as the "Failed to fetch user profile" error *)
(* wrapping the transport error.                                           *)
(***************************************************************************)
C10_MalformedByPlace ==
    pc = "done" =>
      /\ resp.err = Null /\ resp.body.s \in NotJSON =>
           Len(doneCalls) = 1 /\ IsParseError(doneCalls[1].err)
      /\ \A b \in MalformedTexts :
           resp.err = TransportError(Str(b)) =>
             Len(doneCalls) = 1 /\ IsFetchError(doneCalls[1].err, resp.err)

C10_Witness ==
    /\ pc = "done"
    /\ resp.err = TransportError(Str(W("<html>")))
    /\ Len(doneCalls) = 1
    /\ IsFetchError(doneCalls[1].err, resp.err)

====
